---------------------------- MODULE Spec2Model ----------------------------
(***************************************************************************)
(* Multi-part QR chunking, framing and hex decoding of the terminal UI     *)
(* (src/ui/tui/src/qr_generator.cpp).  Bytes and characters are modelled   *)
(* as their numeric codes (0..255); a byte vector or a std::string is a   *)
(* sequence of codes.                                                      *)
(***************************************************************************)
EXTENDS Integers, Sequences, FiniteSets, TLC

VARIABLES pc, data, max_length, ecc, qrs, encoded, hex, hexOut,
          qrcode, ret, seen, th, viewer, wallet, app

vars == <<pc, data, max_length, ecc, qrs, encoded, hex, hexOut,
          qrcode, ret, seen, th, viewer, wallet, app>>

uiVars == <<viewer, wallet, app>>

renderVars == <<ret, seen, th>>

-----------------------------------------------------------------------------
(* Bounds of the explored input space *)

MaxDataLen == 24

MaxChunkArg == 12

MaxHexLen == 4

-----------------------------------------------------------------------------
(* Program constants of GenerateQRs *)

MAX_TOTAL_SIZE == 100000

MAX_QR_PARTS == 1000

MIN_CHUNK_SIZE == 10

-----------------------------------------------------------------------------
(* Character codes *)

ChP == 80

ChSlash == 47

ChColon == 58

Ch0 == 48

Digits == 48..57

Max(a, b) == IF a >= b THEN a ELSE b

Min(a, b) == IF a <= b THEN a ELSE b

-----------------------------------------------------------------------------
(* The external symbol encoder (qrcodegen), byte mode, versions 1..40.     *)

EccLevels == {"LOW", "MEDIUM", "QUARTILE", "HIGH"}

\* Largest byte-mode payload a version-40 symbol holds at each level.
EncCapacity(e) ==
  CASE e = "LOW"      -> 2953
    [] e = "MEDIUM"   -> 2331
    [] e = "QUARTILE" -> 1663
    [] e = "HIGH"     -> 1273

\* encodeSegments throws data_too_long iff the bytes do not fit version 40.
EncodeThrows(bytes, e) == Len(bytes) > EncCapacity(e)

\* Side length of the produced symbol: some positive function of the input.
EncGetSize(bytes, e) == 1 + (Len(bytes) % 3)

\* One module of the produced symbol: a fixed function of the input.
EncGetModule(bytes, e, x, y) ==
  IF Len(bytes) = 0 THEN (x + y) % 2 = 0
  ELSE (bytes[((x + y) % Len(bytes)) + 1] + x) % 2 = 1

-----------------------------------------------------------------------------
(* struct QRCode *)

NewQRCode == [modules |-> << >>, size |-> 0, part |-> 1, total_parts |-> 1,
              cached_ascii |-> << >>]

\* No renderer has been called: nothing returned, nothing recorded, no
\* thread inside toHalfBlockAscii.
\* again: the renderer named by op had been called on the symbol before
NoOut == [op |-> "none", str |-> << >>, again |-> FALSE]

NoneSeen == [robust |-> << >>, compact |-> << >>, half |-> << >>]

NoThreads == << >>

RenderIdle == ret = NoOut /\ seen = NoneSeen /\ th = NoThreads

\* No viewer, wallet detector or application state has been constructed.
NoViewer == [op |-> "none"]

NoWallet == [op |-> "none"]

NoApp == [op |-> "none"]

UiIdle == viewer = NoViewer /\ wallet = NoWallet /\ app = NoApp

\* Variant of FillModules: every row is one entry short.
FillModules_ShortRows(bytes, e, size) ==
  [y \in 1..size |-> [x \in 1..(size - 1) |-> EncGetModule(bytes, e, x - 1, y - 1)]]

\* resize(size, row(size)) followed by the copy loop over getModule(x, y)
FillModules(bytes, e, size) ==
  [y \in 1..size |-> [x \in 1..size |-> EncGetModule(bytes, e, x - 1, y - 1)]]

\* GenerateQR(const std::vector<uint8_t>&, Ecc)
GenerateQR(bytes, e) ==
  IF EncodeThrows(bytes, e)
    THEN [NewQRCode EXCEPT !.size = 0]
    ELSE [NewQRCode EXCEPT !.size = EncGetSize(bytes, e),
                           !.modules = FillModules(bytes, e, EncGetSize(bytes, e))]

\* std::to_string of a non-negative integer
RECURSIVE to_string(_)
to_string(n) ==
  IF n < 10 THEN <<Ch0 + n>>
  ELSE to_string(n \div 10) \o <<Ch0 + (n % 10)>>

\* Variant of PartHeader: the part number is written zero-based.
PartHeader_ZeroBased(i, num_parts) ==
  <<ChP>> \o to_string(i) \o <<ChSlash>> \o to_string(num_parts) \o <<ChColon>>

\* "P" + to_string(i + 1) + "/" + to_string(num_parts) + ":"
PartHeader(i, num_parts) ==
  <<ChP>> \o to_string(i + 1) \o <<ChSlash>> \o to_string(num_parts) \o <<ChColon>>

\* Variant of Chunk: the slice ends one byte early.
Chunk_SliceShort(d, i, num_parts, ml) ==
  LET start  == i * ml
      length == Min(ml, Len(d) - start)
  IN  PartHeader(i, num_parts) \o SubSeq(d, start + 1, start + length - 1)

\* header bytes followed by data[start, start + length)
Chunk(d, i, num_parts, ml) ==
  LET start  == i * ml
      length == Min(ml, Len(d) - start)
  IN  PartHeader(i, num_parts) \o SubSeq(d, start + 1, start + length)

\* Variant of EncodePart: the part number is stored zero-based.
EncodePart_ZeroBasedPart(chunk, e, i, num_parts) ==
  IF EncodeThrows(chunk, e)
    THEN [NewQRCode EXCEPT !.size = 0, !.part = i, !.total_parts = num_parts]
    ELSE [NewQRCode EXCEPT !.size = EncGetSize(chunk, e),
                           !.part = i,
                           !.total_parts = num_parts,
                           !.modules = FillModules(chunk, e, EncGetSize(chunk, e))]

\* The try/catch of one loop iteration: a real symbol, or a size-0 symbol
\* carrying the same part/total_parts.
EncodePart(chunk, e, i, num_parts) ==
  IF EncodeThrows(chunk, e)
    THEN [NewQRCode EXCEPT !.size = 0, !.part = i + 1, !.total_parts = num_parts]
    ELSE [NewQRCode EXCEPT !.size = EncGetSize(chunk, e),
                           !.part = i + 1,
                           !.total_parts = num_parts,
                           !.modules = FillModules(chunk, e, EncGetSize(chunk, e))]

\* The iterations the loop for (int i = 0; i < parts_count; ++i) executes:
\* start = i * max_length grows with i, so the break at the first i with
\* start >= data.size() leaves exactly the iterations with start < size.
LoopIterations(d, ml, parts_count) ==
  {i \in 0..(parts_count - 1) : i * ml < Len(d)}

\* The loop body run for every executed iteration, in order: the symbols
\* pushed and the byte strings encoded.
ChunkLoop(d, ml, e, num_parts) ==
  LET n == Cardinality(LoopIterations(d, ml, num_parts))
      chunks == [k \in 1..n |-> Chunk(d, k - 1, num_parts, ml)]
  IN  [qrs   |-> [k \in 1..n |-> EncodePart(chunks[k], e, k - 1, num_parts)],
       calls |-> chunks]

NoOutput == [qrs |-> << >>, calls |-> << >>]

\* Single-part path: the symbol is pushed only when qr.size > 0.
SinglePart(d, e) ==
  LET qr == GenerateQR(d, e)
  IN  [qrs   |-> IF qr.size > 0
                   THEN <<[qr EXCEPT !.part = 1, !.total_parts = 1]>>
                   ELSE << >>,
       calls |-> <<d>>]

\* Variant of GenerateQRs: the data.empty() test is missing.
GenerateQRs_NoEmptyCheck(d, maxlen, e) ==
  IF Len(d) > MAX_TOTAL_SIZE THEN NoOutput
  ELSE LET ml == Max(maxlen, MIN_CHUNK_SIZE)
       IN  IF Len(d) <= ml THEN SinglePart(d, e)
           ELSE LET num_parts == (Len(d) + ml - 1) \div ml
                IN  IF num_parts > MAX_QR_PARTS THEN NoOutput
                    ELSE ChunkLoop(d, ml, e, num_parts)

\* Variant of GenerateQRs: the payload size is tested with the wrong
\* comparison, so only a payload of exactly MAX_TOTAL_SIZE bytes is refused.
GenerateQRs_SizeTestEquals(d, maxlen, e) ==
  IF Len(d) = 0 \/ Len(d) = MAX_TOTAL_SIZE THEN NoOutput
  ELSE LET ml == Max(maxlen, MIN_CHUNK_SIZE)
       IN  IF Len(d) <= ml THEN SinglePart(d, e)
           ELSE LET num_parts == (Len(d) + ml - 1) \div ml
                IN  IF num_parts > MAX_QR_PARTS THEN NoOutput
                    ELSE ChunkLoop(d, ml, e, num_parts)

\* Variant of GenerateQRs: a payload needing more than MAX_QR_PARTS parts is
\* cut to its first MAX_QR_PARTS parts.
GenerateQRs_TruncatesAtCap(d, maxlen, e) ==
  IF Len(d) = 0 \/ Len(d) > MAX_TOTAL_SIZE THEN NoOutput
  ELSE LET ml == Max(maxlen, MIN_CHUNK_SIZE)
       IN  IF Len(d) <= ml THEN SinglePart(d, e)
           ELSE LET num_parts == (Len(d) + ml - 1) \div ml
                IN  ChunkLoop(d, ml, e, Min(num_parts, MAX_QR_PARTS))

\* Variant of GenerateQRs: only a max_length of zero is raised to
\* MIN_CHUNK_SIZE.
GenerateQRs_ClampsOnlyZero(d, maxlen, e) ==
  IF Len(d) = 0 \/ Len(d) > MAX_TOTAL_SIZE THEN NoOutput
  ELSE LET ml == IF maxlen = 0 THEN MIN_CHUNK_SIZE ELSE maxlen
       IN  IF Len(d) <= ml THEN SinglePart(d, e)
           ELSE LET num_parts == (Len(d) + ml - 1) \div ml
                IN  IF num_parts > MAX_QR_PARTS THEN NoOutput
                    ELSE ChunkLoop(d, ml, e, num_parts)

\* GenerateQRs(const std::vector<uint8_t>&, size_t, Ecc): the returned
\* vector (qrs) and the byte strings handed to the encoder (calls).
GenerateQRs(d, maxlen, e) ==
  IF Len(d) = 0 \/ Len(d) > MAX_TOTAL_SIZE THEN NoOutput
  ELSE LET ml == Max(maxlen, MIN_CHUNK_SIZE)
       IN  IF Len(d) <= ml THEN SinglePart(d, e)
           ELSE LET num_parts == (Len(d) + ml - 1) \div ml
                IN  IF num_parts > MAX_QR_PARTS THEN NoOutput
                    ELSE ChunkLoop(d, ml, e, num_parts)

\* std::vector<uint8_t> bytes(data.begin(), data.end())
StringToBytes(s) == SubSeq([k \in 1..Len(s) |-> s[k] % 256], 1, Len(s))

\* GenerateQRs(const std::string&, size_t, Ecc)
GenerateQRsString(s, maxlen, e) == GenerateQRs(StringToBytes(s), maxlen, e)

-----------------------------------------------------------------------------
(* hex_to_bytes *)

IsHexDigit(c) == c \in 48..57 \/ c \in 65..70 \/ c \in 97..102

HexVal(c) ==
  IF c \in 48..57 THEN c - 48
  ELSE IF c \in 65..70 THEN c - 55
  ELSE c - 87

\* isspace: ' ', \t, \n, \v, \f, \r
IsSpace(c) == c = 32 \/ c \in 9..13

IsSign(c) == c = 43 \/ c = 45

\* static_cast<uint8_t>(std::stoul(byte_string, nullptr, 16)) on the
\* two-character substring c1 c2.  strtoul skips leading white space, takes
\* an optional sign and then the longest run of hex digits ("0x" with no
\* digit after it converts as "0"); std::stoul throws invalid_argument only
\* when no digit was converted.  A leading '-' negates the unsigned value.
Stoul16(c1, c2) ==
  IF IsSpace(c1) THEN
    IF IsHexDigit(c2) THEN [ok |-> TRUE, val |-> HexVal(c2)]
    ELSE [ok |-> FALSE, val |-> 0]
  ELSE IF IsSign(c1) THEN
    IF IsHexDigit(c2)
      THEN [ok |-> TRUE,
            val |-> IF c1 = 45 THEN (256 - HexVal(c2)) % 256 ELSE HexVal(c2)]
      ELSE [ok |-> FALSE, val |-> 0]
  ELSE IF IsHexDigit(c1) THEN
    IF IsHexDigit(c2) THEN [ok |-> TRUE, val |-> 16 * HexVal(c1) + HexVal(c2)]
    ELSE [ok |-> TRUE, val |-> HexVal(c1)]
  ELSE [ok |-> FALSE, val |-> 0]

\* if (size >= 2 && substr(0, 2) == "0x") hex_str = hex_str.substr(2)
StripPrefix0x(h) ==
  IF Len(h) >= 2 /\ h[1] = 48 /\ h[2] = 120 THEN SubSeq(h, 3, Len(h)) ELSE h

HexThrow == [err |-> TRUE, bytes |-> << >>]

\* hex_to_bytes(const std::string&): err is TRUE when the call leaves by an
\* exception (no byte vector is returned then).
hex_to_bytes(h) ==
  IF Len(h) = 0 THEN [err |-> FALSE, bytes |-> << >>]
  ELSE LET hex_str == StripPrefix0x(h)
       IN  IF Len(hex_str) % 2 # 0 THEN HexThrow
           ELSE LET conv == [k \in 1..(Len(hex_str) \div 2) |->
                               Stoul16(hex_str[2 * k - 1], hex_str[2 * k])]
                IN  IF \E k \in DOMAIN conv : ~conv[k].ok THEN HexThrow
                    ELSE [err |-> FALSE,
                          bytes |-> [k \in DOMAIN conv |-> conv[k].val]]

-----------------------------------------------------------------------------
(* Inputs *)

Patterns == << <<66>>, <<80, 49, 47, 50, 58>>, <<0, 255, 10, 58, 49, 80>> >>

Payload(n, p) ==
  SubSeq([k \in 1..n |-> Patterns[p][((k - 1) % Len(Patterns[p])) + 1]], 1, n)

SmallInputs == (0..MaxDataLen) \X (0..MaxChunkArg)

LargeInputs ==
  { <<0, 100>>, <<5, 100>>, <<100, 100>>, <<101, 100>>, <<1273, 3000>>,
    <<105, 10>>, <<3100, 3000>>, <<6000, 3000>>, <<10000, 10>>, <<10001, 10>>,
    <<10001, 0>>, <<20000, 20000>>, <<20001, 20000>>,
    <<100000, 100>>, <<100000, 99>>, <<100000, 100000>>,
    <<100001, 100>>, <<100001, 1000>>, <<100001, 200000>> }

Inputs == SmallInputs \cup LargeInputs

-----------------------------------------------------------------------------
(* The chunking pipeline as a state machine: one call of GenerateQRs *)

Init ==
  /\ pc = "call"
  /\ \E in \in Inputs, p \in 1..Len(Patterns) :
       /\ data = Payload(in[1], p)
       /\ max_length = in[2]
  /\ ecc \in EccLevels
  /\ qrs = << >>
  /\ encoded = << >>
  /\ hex = << >>
  /\ hexOut = [err |-> FALSE, bytes |-> << >>]
  /\ qrcode = NewQRCode
  /\ RenderIdle
  /\ UiIdle

CallGenerateQRs ==
  /\ pc = "call"
  /\ LET out == GenerateQRs(data, max_length, ecc)
     IN  /\ qrs' = out.qrs
         /\ encoded' = out.calls
  /\ pc' = "done"
  /\ UNCHANGED <<data, max_length, ecc, hex, hexOut, qrcode, renderVars, uiVars>>

CallGenerateQRsString ==
  /\ pc = "call"
  /\ LET out == GenerateQRsString(data, max_length, ecc)
     IN  /\ qrs' = out.qrs
         /\ encoded' = out.calls
  /\ pc' = "done"
  /\ UNCHANGED <<data, max_length, ecc, hex, hexOut, qrcode, renderVars, uiVars>>

\* GenerateQR(const std::vector<uint8_t>&, Ecc) called on the payload
CallGenerateQR ==
  /\ pc = "call"
  /\ qrcode' = GenerateQR(data, ecc)
  /\ encoded' = <<data>>
  /\ pc' = "done_qr"
  /\ UNCHANGED <<data, max_length, ecc, qrs, hex, hexOut, renderVars, uiVars>>

\* GenerateQR(const std::string&, Ecc)
CallGenerateQRString ==
  /\ pc = "call"
  /\ qrcode' = GenerateQR(StringToBytes(data), ecc)
  /\ encoded' = <<StringToBytes(data)>>
  /\ pc' = "done_qr"
  /\ UNCHANGED <<data, max_length, ecc, qrs, hex, hexOut, renderVars, uiVars>>

Next ==
  \/ CallGenerateQRs
  \/ CallGenerateQRsString
  \/ CallGenerateQR
  \/ CallGenerateQRString

Spec == Init /\ [][Next]_vars

-----------------------------------------------------------------------------
(* One call of hex_to_bytes on a string over a small alphabet *)

\* '0' '1' 'A' 'f' 'x' 'X' 'g' ' ' '-'
HexAlphabet == {48, 49, 65, 102, 120, 88, 103, 32, 45}

HexStrings == UNION {[1..n -> HexAlphabet] : n \in 0..MaxHexLen}

InitHex ==
  /\ pc = "hex_call"
  /\ hex \in HexStrings
  /\ hexOut = [err |-> FALSE, bytes |-> << >>]
  /\ data = << >>
  /\ max_length = 0
  /\ ecc = "QUARTILE"
  /\ qrs = << >>
  /\ encoded = << >>
  /\ qrcode = NewQRCode
  /\ RenderIdle
  /\ UiIdle

CallHexToBytes ==
  /\ pc = "hex_call"
  /\ hexOut' = hex_to_bytes(hex)
  /\ pc' = "hex_done"
  /\ UNCHANGED <<data, max_length, ecc, qrs, encoded, hex, qrcode, renderVars, uiVars>>

NextHex == CallHexToBytes

SpecHex == InitHex /\ [][NextHex]_vars

-----------------------------------------------------------------------------
(* The reconstructing party: the recognition grammar of the frame header *)

IsDigit(c) == c \in Digits

\* Length of the longest run of digits of b that starts at position from
DigitRun(b, from) ==
  CHOOSE m \in 0..Max(0, Len(b) - from + 1) :
    /\ \A j \in from..(from + m - 1) : IsDigit(b[j])
    /\ (from + m > Len(b) \/ ~IsDigit(b[from + m]))

\* Length of the header 'P' digits '/' digits ':' at the front of b, or 0
\* when b does not start with one
HeaderLen(b) ==
  IF Len(b) = 0 \/ b[1] # ChP THEN 0
  ELSE LET r1 == DigitRun(b, 2)
       IN  IF r1 = 0 \/ 2 + r1 > Len(b) \/ b[2 + r1] # ChSlash THEN 0
           ELSE LET r2 == DigitRun(b, 3 + r1)
                IN  IF r2 = 0 \/ 3 + r1 + r2 > Len(b) \/ b[3 + r1 + r2] # ChColon
                      THEN 0
                      ELSE 3 + r1 + r2

HeaderPartDigits(b) == SubSeq(b, 2, 1 + DigitRun(b, 2))

HeaderTotalDigits(b) ==
  SubSeq(b, 3 + DigitRun(b, 2), 2 + DigitRun(b, 2) + DigitRun(b, 3 + DigitRun(b, 2)))

\* std::stoi of a run of digits
RECURSIVE ParseDecimal(_)
ParseDecimal(ds) ==
  IF Len(ds) = 0 THEN 0
  ELSE 10 * ParseDecimal(SubSeq(ds, 1, Len(ds) - 1)) + (ds[Len(ds)] - Ch0)

StripHeader(b) == SubSeq(b, HeaderLen(b) + 1, Len(b))

-----------------------------------------------------------------------------
(* Observations on the result of a call *)

Done == pc = "done"

\* max_length after std::max(max_length, MIN_CHUNK_SIZE)
EffLen == IF max_length >= MIN_CHUNK_SIZE THEN max_length ELSE MIN_CHUNK_SIZE

\* ceil(Len(data) / EffLen), from its defining inequalities
NumPartsOf ==
  CHOOSE n \in 0..(Len(data) + 1) : (n - 1) * EffLen < Len(data) /\ Len(data) <= n * EffLen

\* Payload bytes carried by the k-th produced symbol: the bytes handed to the
\* encoder for it, without the header when the symbol is one of several
Carried(k) ==
  IF qrs[k].total_parts > 1 THEN StripHeader(encoded[k]) ELSE encoded[k]

\* Index of the produced symbol whose part is j (the first one, if several)
ByPart(j) ==
  CHOOSE k \in 1..Len(qrs) :
    qrs[k].part = j /\ \A m \in 1..(k - 1) : qrs[m].part # j

\* The parts of the produced symbols are 1..N, so that ascending part order
\* is the order ByPart(1), ..., ByPart(N)
PartsCoverRange ==
  \A j \in 1..Len(qrs) : \E k \in 1..Len(qrs) : qrs[k].part = j

RECURSIVE ConcatCarried(_, _)
ConcatCarried(lo, hi) ==
  IF lo > hi THEN << >>
  ELSE IF lo = hi THEN Carried(ByPart(lo))
  ELSE LET mid == (lo + hi) \div 2
       IN  ConcatCarried(lo, mid) \o ConcatCarried(mid + 1, hi)

\* The payload the reconstructing party obtains; nothing when a part is
\* missing (it fails closed)
Reassembled ==
  IF Len(encoded) = Len(qrs) /\ PartsCoverRange
    THEN ConcatCarried(1, Len(qrs))
    ELSE << >>

-----------------------------------------------------------------------------
(* Claims *)

\* C1: whenever a call returns N >= 1 symbols, the symbol at position k has
\* part = k (so the parts are 1..N, once each, ascending) and every symbol
\* has total_parts = N, whether or not chunk encodes failed.
C1_GaplessNumbering ==
  (Done /\ Len(qrs) >= 1) =>
     \A k \in 1..Len(qrs) : qrs[k].part = k /\ qrs[k].total_parts = Len(qrs)

\* C1 witness: a multi-part result in which one chunk failed to encode and
\* another succeeded.
C1_Witness ==
  /\ Done
  /\ Len(qrs) >= 2
  /\ \E k \in 1..Len(qrs) : qrs[k].size = 0
  /\ \E k \in 1..Len(qrs) : qrs[k].size > 0

C3_SentinelOnEncodeFailure ==
  Done =>
    /\ Len(qrs) = Len(encoded)
    /\ \A k \in 1..Len(encoded) :
         EncodeThrows(encoded[k], ecc) =>
            /\ qrs[k].size = 0
            /\ qrs[k].modules = << >>
            /\ qrs[k].part = k
            /\ qrs[k].total_parts = Len(encoded)

C6_PartsCapEveryPayload ==
  (Done /\ Len(data) > EffLen) =>
     /\ (NumPartsOf > MAX_QR_PARTS => qrs = << >>)
     /\ (NumPartsOf <= MAX_QR_PARTS => Len(qrs) = NumPartsOf)

\* C6 (amended): the same, for a payload of at most MAX_TOTAL_SIZE bytes.
C6_PartsCapWithinTotalSize ==
  (Done /\ Len(data) > EffLen /\ Len(data) <= MAX_TOTAL_SIZE) =>
     /\ (NumPartsOf > MAX_QR_PARTS => qrs = << >>)
     /\ (NumPartsOf <= MAX_QR_PARTS => Len(qrs) = NumPartsOf)

\* C6 witness: a payload within the total-size cap that needs MAX_QR_PARTS + 1
\* parts and got none.
C6_Witness ==
  /\ Done
  /\ Len(data) <= MAX_TOTAL_SIZE
  /\ NumPartsOf = MAX_QR_PARTS + 1
  /\ qrs = << >>

\* C7: a payload of exactly the effective chunk length L yields exactly one
\* symbol with total_parts = 1; a payload of L + 1 bytes yields exactly two
\* symbols with total_parts = 2, the second carrying one payload byte.
C7_Boundary ==
  Done =>
    /\ (Len(data) = EffLen =>
          (Len(qrs) = 1 /\ qrs[1].total_parts = 1))
    /\ (Len(data) = EffLen + 1 =>
          /\ Len(qrs) = 2
          /\ qrs[1].total_parts = 2
          /\ qrs[2].total_parts = 2
          /\ Len(StripHeader(encoded[2])) = 1)

\* C8: in a multi-part result the bytes encoded for part i are a header
\* 'P' decimal(i) '/' decimal(numParts) ':' without leading zeros followed
\* by data[(i-1)*L .. min(i*L, length)); every part but the last carries L
\* bytes and the last carries 1..L bytes.
C8_FrameLayout ==
  (Done /\ Len(qrs) >= 1 /\ qrs[1].total_parts > 1) =>
     LET n == qrs[1].total_parts
     IN  /\ Len(encoded) = n
         /\ \A i \in 1..n :
              LET b == encoded[i]
                  body == StripHeader(b)
              IN  /\ HeaderLen(b) > 0
                  /\ HeaderPartDigits(b)[1] # Ch0
                  /\ HeaderTotalDigits(b)[1] # Ch0
                  /\ ParseDecimal(HeaderPartDigits(b)) = i
                  /\ ParseDecimal(HeaderTotalDigits(b)) = n
                  /\ body = SubSeq(data, (i - 1) * EffLen + 1,
                                   Min(i * EffLen, Len(data)))
                  /\ (i < n => Len(body) = EffLen)
                  /\ (i = n => (1 <= Len(body) /\ Len(body) <= EffLen))

\* C8 witness: a result with two-digit part numbers whose last part is
\* shorter than the others.
C8_Witness ==
  /\ Done
  /\ Len(qrs) >= 10
  /\ Len(data) % EffLen # 0
  /\ HeaderLen(encoded[Len(encoded)]) > 0

\* C9: when 0 < length <= effective chunk length, the encoder receives
\* exactly the raw payload and exactly one symbol with part = 1 and
\* total_parts = 1 is produced; when the payload is longer, every encoded
\* byte string starts with a header.
C9_HeaderIffMultiPart ==
  Done =>
    /\ ((0 < Len(data) /\ Len(data) <= EffLen) =>
          /\ encoded = <<data>>
          /\ Len(qrs) = 1
          /\ qrs[1].part = 1
          /\ qrs[1].total_parts = 1)
    /\ (Len(data) > EffLen =>
          \A k \in 1..Len(encoded) : HeaderLen(encoded[k]) > 0)

\* The part of a hex string after an optional "0x" / "0X" prefix
DigitsPart(h) ==
  IF Len(h) >= 2 /\ h[1] = 48 /\ (h[2] = 120 \/ h[2] = 88)
    THEN SubSeq(h, 3, Len(h)) ELSE h

Malformed(h) ==
  \/ Len(DigitsPart(h)) % 2 # 0
  \/ \E k \in 1..Len(DigitsPart(h)) : ~IsHexDigit(DigitsPart(h)[k])

\* C10: hex_to_bytes fails explicitly, returning no bytes, for every input
\* whose digits part has odd length or holds a character that is not a hex
\* digit.
C10_MalformedHexFails ==
  (pc = "hex_done" /\ Malformed(hex)) =>
     (hexOut.err /\ hexOut.bytes = << >>)

\* h is a (possibly empty) even-length string of hex digits
EvenHexDigits(h) ==
  Len(h) % 2 = 0 /\ \A k \in 1..Len(h) : IsHexDigit(h[k])

\* C11: for every even-length string h of hex digits, hex_to_bytes("0x" + h)
\* and hex_to_bytes("0X" + h) return what hex_to_bytes(h) returned.
C11_PrefixOptional ==
  (pc = "hex_done" /\ EvenHexDigits(hex)) =>
     /\ hex_to_bytes(<<48, 120>> \o hex) = hexOut
     /\ hex_to_bytes(<<48, 88>> \o hex) = hexOut

\* C12: no call leaves by an exception; here, hex_to_bytes always returns.
C12_NoExceptionEscapes == pc = "hex_done" => ~hexOut.err

\* The structural invariants of a symbol
WellFormed(q) ==
  /\ Len(q.modules) = q.size
  /\ \A y \in 1..Len(q.modules) : Len(q.modules[y]) = q.size
  /\ (q.size = 0 => q.modules = << >>)
  /\ q.part >= 1
  /\ q.part <= q.total_parts
  /\ (q.total_parts = 1 => q.part = 1)

\* C13: every symbol returned by GenerateQR or GenerateQRs has size rows of
\* size entries, an empty grid when size = 0, 1 <= part <= total_parts, and
\* part = 1 when total_parts = 1.
C13_SymbolsWellFormed ==
  /\ (pc = "done" => \A k \in 1..Len(qrs) : WellFormed(qrs[k]))
  /\ (pc = "done_qr" => WellFormed(qrcode))

\* C13 witness: GenerateQR returned a size-0 symbol for a payload the
\* encoder rejected.
C13_Witness == pc = "done_qr" /\ qrcode.size = 0 /\ Len(data) > 0


-----------------------------------------------------------------------------
(* The three renderers of QRCode.  A std::string is the sequence of its    *)
(* bytes; the block glyphs are their three-byte UTF-8 encodings.           *)

\* "(No QR data)"
Placeholder == <<40, 78, 111, 32, 81, 82, 32, 100, 97, 116, 97, 41>>

ChNewline == 10

ChSpace == 32

ChHash == 35

\* U+2588 FULL BLOCK
FullBlock == <<226, 150, 136>>

\* U+2580 UPPER HALF BLOCK
UpperHalfBlock == <<226, 150, 128>>

\* U+2584 LOWER HALF BLOCK
LowerHalfBlock == <<226, 150, 132>>

\* Appending the strings ss[lo], ..., ss[hi] in order (result += ...)
RECURSIVE AppendAll(_, _, _)
AppendAll(ss, lo, hi) ==
  IF lo > hi THEN << >>
  ELSE IF lo = hi THEN ss[lo]
  ELSE LET mid == (lo + hi) \div 2
       IN  AppendAll(ss, lo, mid) \o AppendAll(ss, mid + 1, hi)

\* n copies of the string w appended one after the other
Repeat(w, n) == AppendAll([k \in 1..n |-> w], 1, n)

\* The lambda draw_horizontal_border: quiet_zone rows of blank cells
draw_horizontal_border(size, white, quiet_zone) ==
  Repeat(Repeat(white, size + 2 * quiet_zone) \o <<ChNewline>>, quiet_zone)

\* Variant of DrawGrid: the grid is read column by column.
DrawGrid_Transposed(q, black, white, quiet_zone) ==
  LET Line(y) ==
        Repeat(white, quiet_zone)
          \o AppendAll([x \in 1..q.size |->
                       IF q.modules[x][y] THEN black ELSE white], 1, q.size)
          \o Repeat(white, quiet_zone)
          \o <<ChNewline>>
  IN  draw_horizontal_border(q.size, white, quiet_zone)
        \o AppendAll([y \in 1..q.size |-> Line(y)], 1, q.size)
        \o draw_horizontal_border(q.size, white, quiet_zone)

\* The body shared by toRobustAscii and toCompactAscii: border, one line
\* per module row between quiet_zone blank cells, border.
DrawGrid(q, black, white, quiet_zone) ==
  LET Line(y) ==
        Repeat(white, quiet_zone)
          \o AppendAll([x \in 1..q.size |->
                       IF q.modules[y][x] THEN black ELSE white], 1, q.size)
          \o Repeat(white, quiet_zone)
          \o <<ChNewline>>
  IN  draw_horizontal_border(q.size, white, quiet_zone)
        \o AppendAll([y \in 1..q.size |-> Line(y)], 1, q.size)
        \o draw_horizontal_border(q.size, white, quiet_zone)

\* Variant of toRobustAscii: the modules.empty() test is missing.
toRobustAscii_DrawsEmptyGrid(q) ==
  DrawGrid(q, <<ChHash, ChHash>>, <<ChSpace, ChSpace>>, 4)

\* QRCode::toRobustAscii
toRobustAscii(q) ==
  IF q.modules = << >> THEN Placeholder
  ELSE DrawGrid(q, <<ChHash, ChHash>>, <<ChSpace, ChSpace>>, 4)

\* Variant of toCompactAscii: a dark module is drawn as the one-byte '#'.
toCompactAscii_AsciiBlock(q) ==
  IF q.modules = << >> THEN Placeholder
  ELSE DrawGrid(q, <<ChHash>>, <<ChSpace>>, 2)

\* QRCode::toCompactAscii
toCompactAscii(q) ==
  IF q.modules = << >> THEN Placeholder
  ELSE DrawGrid(q, FullBlock, <<ChSpace>>, 2)

\* Variant of HalfBlockGlyph: the upper and lower half glyphs are swapped.
HalfBlockGlyph_SwappedHalves(q, y, x) ==
  LET top_module == q.modules[y + 1][x]
      bottom_module == IF y + 1 < q.size THEN q.modules[y + 2][x] ELSE FALSE
  IN  IF top_module /\ bottom_module THEN FullBlock
      ELSE IF top_module THEN LowerHalfBlock
      ELSE IF bottom_module THEN UpperHalfBlock
      ELSE <<ChSpace>>

\* The glyph of one column of a pair of module rows (y is the 0-based
\* index of the top row; the bottom row is absent below the last row).
HalfBlockGlyph(q, y, x) ==
  LET top_module == q.modules[y + 1][x]
      bottom_module == IF y + 1 < q.size THEN q.modules[y + 2][x] ELSE FALSE
  IN  IF top_module /\ bottom_module THEN FullBlock
      ELSE IF top_module THEN UpperHalfBlock
      ELSE IF bottom_module THEN LowerHalfBlock
      ELSE <<ChSpace>>

\* The lines written for y = 0, 2, 4, ... < size
HalfBlockLines(q) ==
  LET n == (q.size + 1) \div 2
      Line(k) == <<ChSpace>>
                   \o AppendAll([x \in 1..q.size |->
                                HalfBlockGlyph(q, 2 * (k - 1), x)], 1, q.size)
                   \o <<ChSpace, ChNewline>>
  IN  AppendAll([k \in 1..n |-> Line(k)], 1, n)

\* One quiet row of toHalfBlockAscii: size + 2 spaces and a newline
HalfBlockQuietRow(q) == Repeat(<<ChSpace>>, q.size + 2) \o <<ChNewline>>

\* What toHalfBlockAscii computes when the cache is empty
HalfBlockUncached(q) ==
  IF q.modules = << >> THEN Placeholder
  ELSE HalfBlockQuietRow(q) \o HalfBlockLines(q) \o HalfBlockQuietRow(q)

\* Variant of toHalfBlockAscii: cached_ascii is assigned before the bottom
\* quiet row is written.
toHalfBlockAscii_CachesBeforeBottom(q) ==
  IF q.cached_ascii # << >> THEN [str |-> q.cached_ascii, qr |-> q]
  ELSE IF q.modules = << >> THEN [str |-> Placeholder, qr |-> q]
  ELSE [str |-> HalfBlockUncached(q),
        qr  |-> [q EXCEPT !.cached_ascii =
                            HalfBlockQuietRow(q) \o HalfBlockLines(q)]]

\* QRCode::toHalfBlockAscii: the returned string (str) and the symbol
\* with its mutable cached_ascii after the call (qr).
toHalfBlockAscii(q) ==
  IF q.cached_ascii # << >> THEN [str |-> q.cached_ascii, qr |-> q]
  ELSE IF q.modules = << >> THEN [str |-> Placeholder, qr |-> q]
  ELSE [str |-> HalfBlockUncached(q),
        qr  |-> [q EXCEPT !.cached_ascii = HalfBlockUncached(q)]]

-----------------------------------------------------------------------------
(* Rendering as a state machine: the renderers called on one symbol, any   *)
(* number of times, in any order.                                          *)

\* Every grid up to this side length is rendered
MaxGridSize == 2

AllGrids(n) == [1..n -> [1..n -> BOOLEAN]]

Checker(n) == [y \in 1..n |-> [x \in 1..n |-> (x + y) % 2 = 0]]

AllDark(n) == [y \in 1..n |-> [x \in 1..n |-> TRUE]]

AllLight(n) == [y \in 1..n |-> [x \in 1..n |-> FALSE]]

\* Larger grids: odd and even sides, the smallest real symbol (21), and
\* dense grids around side 29.
LargeGrids ==
  {Checker(3), AllDark(3), Checker(5), AllLight(4), Checker(21), AllDark(21),
   AllDark(28), AllDark(29), Checker(29)}

\* Grids the pipeline returns for short payloads
PipelineGrids ==
  {GenerateQR(Payload(n, 3), "QUARTILE").modules : n \in 0..2}

RenderGrids ==
  {<< >>} \cup UNION {AllGrids(n) : n \in 1..MaxGridSize}
          \cup LargeGrids \cup PipelineGrids

\* part / total_parts of the rendered symbol
PartTags == {<<1, 1>>, <<2, 5>>, <<1000, 1000>>}

SymbolOf(g, tag) ==
  [NewQRCode EXCEPT !.modules = g, !.size = Len(g),
                    !.part = tag[1], !.total_parts = tag[2]]

InitRender ==
  /\ pc = "render"
  /\ \E g \in RenderGrids, tag \in PartTags : qrcode = SymbolOf(g, tag)
  /\ RenderIdle
  /\ UiIdle
  /\ data = << >>
  /\ max_length = 0
  /\ ecc = "QUARTILE"
  /\ qrs = << >>
  /\ encoded = << >>
  /\ hex = << >>
  /\ hexOut = [err |-> FALSE, bytes |-> << >>]

pipelineVars == <<data, max_length, ecc, qrs, encoded, hex, hexOut>>

\* The first string each renderer returned is kept in seen.
CallRobust ==
  /\ pc = "render"
  /\ LET s == toRobustAscii(qrcode)
     IN  /\ ret' = [op |-> "robust", str |-> s,
                 again |-> seen.robust # << >>]
         /\ seen' = IF seen.robust = << >> THEN [seen EXCEPT !.robust = s]
                    ELSE seen
  /\ UNCHANGED <<pc, qrcode, th, pipelineVars, uiVars>>

CallCompact ==
  /\ pc = "render"
  /\ LET s == toCompactAscii(qrcode)
     IN  /\ ret' = [op |-> "compact", str |-> s,
                 again |-> seen.compact # << >>]
         /\ seen' = IF seen.compact = << >> THEN [seen EXCEPT !.compact = s]
                    ELSE seen
  /\ UNCHANGED <<pc, qrcode, th, pipelineVars, uiVars>>

CallHalfBlock ==
  /\ pc = "render"
  /\ LET r == toHalfBlockAscii(qrcode)
     IN  /\ ret' = [op |-> "half", str |-> r.str,
                 again |-> seen.half # << >>]
         /\ seen' = IF seen.half = << >> THEN [seen EXCEPT !.half = r.str]
                    ELSE seen
         /\ qrcode' = r.qr
  /\ UNCHANGED <<pc, th, pipelineVars, uiVars>>

NextRender ==
  \/ CallRobust
  \/ CallCompact
  \/ CallHalfBlock

SpecRender == InitRender /\ [][NextRender]_vars


-----------------------------------------------------------------------------
(* Properties of the renderers *)

Sentinel(q) == q.size = 0 /\ q.modules = << >>

\* C14: every renderer returns the fixed placeholder "(No QR data)" for a
\* sentinel symbol (size 0, no modules), whatever its part / total_parts
\* and whatever renderers were called on it before, in whatever order.
C14_SentinelPlaceholder ==
  (pc = "render" /\ Sentinel(qrcode)) =>
     /\ (ret.op # "none" => ret.str = Placeholder)
     /\ toRobustAscii(qrcode) = Placeholder
     /\ toCompactAscii(qrcode) = Placeholder
     /\ toHalfBlockAscii(qrcode).str = Placeholder

\* C14 witness: a sentinel numbered 2 of 5 on which all three renderers
\* have been called, the half-block renderer more than once and last.
C14_Witness ==
  /\ pc = "render" /\ Sentinel(qrcode)
  /\ qrcode.part = 2 /\ qrcode.total_parts = 5
  /\ seen.robust # << >> /\ seen.compact # << >>
  /\ ret.op = "half" /\ ret.again

\* A repeated call returns what the first call of that renderer returned,
\* and the half-block string is the one computed without the cache.
C17_SameOutput ==
  pc = "render" =>
     /\ (ret.op = "robust" => ret.str = seen.robust)
     /\ (ret.op = "compact" => ret.str = seen.compact)
     /\ (ret.op = "half" =>
           ret.str = seen.half /\ ret.str = HalfBlockUncached(qrcode))

\* A renderer call leaves modules, size, part and total_parts alone.
C17_SymbolUnchanged ==
  /\ qrcode'.modules = qrcode.modules
  /\ qrcode'.size = qrcode.size
  /\ qrcode'.part = qrcode.part
  /\ qrcode'.total_parts = qrcode.total_parts

\* C17: rendering is pure and deterministic: a second and any later call
\* of a renderer on a symbol returns the bytes its first call returned,
\* the half-block bytes equal the uncached computation, and no call
\* changes modules, size, part or total_parts.
C17_PureRendering == []C17_SameOutput /\ [][C17_SymbolUnchanged]_vars

\* C17 witness: toHalfBlockAscii called again on a grid of several rows
\* after it filled the cache, with the other renderers called as well.
C17_Witness ==
  /\ pc = "render" /\ qrcode.size >= 2
  /\ ret.op = "half" /\ ret.again /\ ret.str = qrcode.cached_ascii
  /\ seen.robust # << >> /\ seen.compact # << >>

\* Number of dark modules of a symbol
DarkModules(q) ==
  Cardinality({c \in (1..q.size) \X (1..q.size) : q.modules[c[2]][c[1]]})

AllRendered == seen.robust # << >> /\ seen.compact # << >> /\ seen.half # << >>

\* C18 as stated: for every symbol, sentinels included, the compact and
\* the half-block strings are strictly shorter in bytes than the robust
\* string.
C18_BothShorterForEverySymbol ==
  (pc = "render" /\ AllRendered) =>
     /\ Len(seen.compact) < Len(seen.robust)
     /\ Len(seen.half) < Len(seen.robust)

\* C18 amended: for a symbol with a grid (size > 0) the half-block string
\* is strictly shorter than the robust string, and the compact string is
\* strictly shorter than the robust string exactly when twice the number
\* of dark modules is below size^2 + 24 * size + 116; for a sentinel the
\* three strings are the same placeholder.
C18_ShorterForGrids ==
  (pc = "render" /\ AllRendered) =>
     IF qrcode.size > 0
       THEN /\ Len(seen.half) < Len(seen.robust)
            /\ (Len(seen.compact) < Len(seen.robust)
                  <=> 2 * DarkModules(qrcode)
                        < qrcode.size * qrcode.size + 24 * qrcode.size + 116)
       ELSE Len(seen.compact) = Len(seen.robust)
              /\ Len(seen.half) = Len(seen.robust)

\* C18 witness: a 21 x 21 grid rendered by all three renderers, the
\* compact and the half-block strings shorter than the robust one.
C18_Witness ==
  /\ pc = "render" /\ AllRendered /\ qrcode.size = 21
  /\ Len(seen.compact) < Len(seen.robust)
  /\ Len(seen.half) < Len(seen.robust)


-----------------------------------------------------------------------------
(* The half-block cache of a symbol whose public fields a client assigns   *)
(* between renderer calls.                                                 *)

CacheGrids ==
  {<< >>} \cup AllGrids(1) \cup {Checker(2), AllDark(2), Checker(3)}

InitCache ==
  /\ pc = "render"
  /\ \E g \in CacheGrids, tag \in PartTags : qrcode = SymbolOf(g, tag)
  /\ RenderIdle
  /\ UiIdle
  /\ data = << >>
  /\ max_length = 0
  /\ ecc = "QUARTILE"
  /\ qrs = << >>
  /\ encoded = << >>
  /\ hex = << >>
  /\ hexOut = [err |-> FALSE, bytes |-> << >>]

\* qr.modules = ...; qr.size = ...;  the struct's fields are public and no
\* member function runs on assignment, so cached_ascii keeps its value.
\* The record of returned strings starts afresh for the changed symbol.
SetModules ==
  /\ pc = "render"
  /\ \E g \in CacheGrids :
       /\ g # qrcode.modules
       /\ qrcode' = [qrcode EXCEPT !.modules = g, !.size = Len(g)]
  /\ ret' = NoOut
  /\ seen' = NoneSeen
  /\ UNCHANGED <<pc, th, pipelineVars, uiVars>>

NextCache ==
  \/ CallHalfBlock
  \/ SetModules

SpecCache == InitCache /\ [][NextCache]_vars

\* C15: a non-empty cached_ascii is the half-block rendering of the
\* symbol's current modules and size, and a toHalfBlockAscii call made
\* after the grid changed returns the rendering of the changed grid.
C15_CacheTracksGrid ==
  pc = "render" =>
     /\ (qrcode.cached_ascii # << >> =>
           qrcode.cached_ascii = HalfBlockUncached(qrcode))
     /\ (ret.op = "half" => ret.str = HalfBlockUncached(qrcode))


-----------------------------------------------------------------------------
(* Two threads inside toHalfBlockAscii on the same symbol.  The function   *)
(* takes no lock: each thread runs its reads and its write of              *)
(* cached_ascii as separate steps, and an access that overlaps the other   *)
(* thread's assignment is a data race whose result is any of the values    *)
(* the string can show.                                                    *)

Threads == {1, 2}

Other(t) == 3 - t

ThreadIdle ==
  [pc |-> "idle", sawEmpty |-> FALSE, wrote |-> FALSE, raced |-> FALSE,
   out |-> << >>]

ThreadGrids == {<< >>, Checker(2), AllDark(2), Checker(3)}

InitThreads ==
  /\ pc = "threads"
  /\ \E g \in ThreadGrids, tag \in PartTags : qrcode = SymbolOf(g, tag)
  /\ th = [t \in Threads |-> ThreadIdle]
  /\ ret = NoOut
  /\ seen = NoneSeen
  /\ UiIdle
  /\ data = << >>
  /\ max_length = 0
  /\ ecc = "QUARTILE"
  /\ qrs = << >>
  /\ encoded = << >>
  /\ hex = << >>
  /\ hexOut = [err |-> FALSE, bytes |-> << >>]

\* The other thread is in the middle of cached_ascii = result.str()
Writing(t) == th[t].pc = "writing"

\* A string caught in the middle of an assignment
Torn(str) == SubSeq(str, 1, Len(str) \div 2)

\* Values a read of cached_ascii can show to thread t
ReadCache(t) ==
  IF Writing(Other(t))
    THEN {qrcode.cached_ascii, HalfBlockUncached(qrcode),
          Torn(HalfBlockUncached(qrcode))}
    ELSE {qrcode.cached_ascii}

\* if (!cached_ascii.empty()) ... if (modules.empty()) return ...; followed
\* by the computation of the local result
Check(t) ==
  /\ pc = "threads"
  /\ th[t].pc = "idle"
  /\ \E c \in ReadCache(t) :
       th' = [th EXCEPT ![t] =
                IF c # << >>
                  THEN [@ EXCEPT !.pc = "return", !.raced = Writing(Other(t))]
                ELSE IF qrcode.modules = << >>
                  THEN [@ EXCEPT !.pc = "done", !.out = Placeholder,
                                 !.raced = Writing(Other(t))]
                ELSE [@ EXCEPT !.pc = "write", !.sawEmpty = TRUE,
                               !.raced = Writing(Other(t))]]
  /\ UNCHANGED <<pc, qrcode, ret, seen, pipelineVars, uiVars>>

\* cached_ascii = result.str() begins
WriteBegin(t) ==
  /\ pc = "threads"
  /\ th[t].pc = "write"
  /\ th' = [th EXCEPT ![t] = [@ EXCEPT !.pc = "writing", !.wrote = TRUE,
                                      !.raced = @ \/ Writing(Other(t))]]
  /\ UNCHANGED <<pc, qrcode, ret, seen, pipelineVars, uiVars>>

\* cached_ascii = result.str() ends; two overlapping assignments can leave
\* a torn string behind
WriteEnd(t) ==
  /\ pc = "threads"
  /\ th[t].pc = "writing"
  /\ \E c \in IF Writing(Other(t))
                THEN {HalfBlockUncached(qrcode),
                      Torn(HalfBlockUncached(qrcode))}
                ELSE {HalfBlockUncached(qrcode)} :
       qrcode' = [qrcode EXCEPT !.cached_ascii = c]
  /\ th' = [th EXCEPT ![t] = [@ EXCEPT !.pc = "return",
                                      !.raced = @ \/ Writing(Other(t))]]
  /\ UNCHANGED <<pc, ret, seen, pipelineVars, uiVars>>

\* return cached_ascii
Return(t) ==
  /\ pc = "threads"
  /\ th[t].pc = "return"
  /\ \E c \in ReadCache(t) :
       th' = [th EXCEPT ![t] = [@ EXCEPT !.pc = "done", !.out = c,
                                         !.raced = @ \/ Writing(Other(t))]]
  /\ UNCHANGED <<pc, qrcode, ret, seen, pipelineVars, uiVars>>

NextThreads ==
  \/ \E t \in Threads : Check(t)
  \/ \E t \in Threads : WriteBegin(t)
  \/ \E t \in Threads : WriteEnd(t)
  \/ \E t \in Threads : Return(t)

SpecThreads == InitThreads /\ [][NextThreads]_vars

\* C16: the cache is filled once or under mutual exclusion: the two
\* threads never both find cached_ascii empty and both assign it, and no
\* thread reads or assigns cached_ascii while the other assigns it.
C16_CacheFilledOnce ==
  pc = "threads" =>
     /\ ~(\A t \in Threads : th[t].sawEmpty /\ th[t].wrote)
     /\ \A t \in Threads : ~th[t].raced


-----------------------------------------------------------------------------
(* The chunk length argument *)

\* C19: a max_length below MIN_CHUNK_SIZE gives the symbols and the
\* encoded byte strings that max_length = MIN_CHUNK_SIZE gives; a
\* max_length of MIN_CHUNK_SIZE or more is used as it is: a payload no
\* longer than it is not split, and a split payload is cut into pieces of
\* exactly max_length bytes with a last piece of at most max_length bytes.
C19_ClampToMinimum ==
  Done =>
     /\ (max_length < MIN_CHUNK_SIZE =>
           /\ qrs = GenerateQRs(StringToBytes(data), MIN_CHUNK_SIZE, ecc).qrs
           /\ encoded
                = GenerateQRs(StringToBytes(data), MIN_CHUNK_SIZE, ecc).calls)
     /\ (max_length >= MIN_CHUNK_SIZE =>
           /\ (Len(data) \in 1..Min(max_length, MAX_TOTAL_SIZE) =>
                 encoded = <<StringToBytes(data)>>)
           /\ (Len(encoded) >= 2 =>
                 /\ \A k \in 1..(Len(encoded) - 1) :
                      Len(StripHeader(encoded[k])) = max_length
                 /\ Len(StripHeader(encoded[Len(encoded)])) \in 1..max_length))

\* C19 witness: a payload split with a max_length between 1 and 9.
C19_Witness ==
  /\ Done
  /\ max_length \in 1..(MIN_CHUNK_SIZE - 1)
  /\ Len(data) > MIN_CHUNK_SIZE
  /\ Len(qrs) >= 2


-----------------------------------------------------------------------------
(* Degraded outcomes *)

\* The payload cannot be encoded as a whole: it is empty, longer than
\* MAX_TOTAL_SIZE, or needs more than MAX_QR_PARTS parts.
NotEncodableAsWhole ==
  \/ Len(data) = 0
  \/ Len(data) > MAX_TOTAL_SIZE
  \/ (Len(data) > EffLen
        /\ (Len(data) + EffLen - 1) \div EffLen > MAX_QR_PARTS)

\* C21: GenerateQRs returns the empty list only for a payload that is not
\* encodable as a whole; when the encoder fails on a chunk the list is not
\* empty and holds a size-0 symbol.
C21_EmptyListOnlyForWholePayload ==
  Done =>
     /\ (qrs = << >> => NotEncodableAsWhole)
     /\ ((\E k \in 1..Len(encoded) : EncodeThrows(encoded[k], ecc)) =>
           \E k \in 1..Len(qrs) : qrs[k].size = 0)


-----------------------------------------------------------------------------
(* Reading a rendered string back: its lines and the cells of a line *)

\* The newline-terminated lines of str, without their newlines, from
\* position from on; bytes after the last newline are dropped.
RECURSIVE SplitLines(_, _)
SplitLines(str, from) ==
  LET nl == {i \in from..Len(str) : str[i] = ChNewline}
  IN  IF nl = {} THEN << >>
      ELSE LET e == CHOOSE i \in nl : \A j \in nl : i <= j
           IN  <<SubSeq(str, from, e - 1)>> \o SplitLines(str, e + 1)

\* A line of two-byte cells
PairCells(line) ==
  [j \in 1..((Len(line) + 1) \div 2) |->
     SubSeq(line, 2 * j - 1, Min(2 * j, Len(line)))]

\* A line of UTF-8 characters: a lead byte 0xE2 opens a three-byte glyph
RECURSIVE Utf8Cells(_, _)
Utf8Cells(line, from) ==
  IF from > Len(line) THEN << >>
  ELSE LET w == IF line[from] = 226 THEN 3 ELSE 1
       IN  <<SubSeq(line, from, Min(from + w - 1, Len(line)))>>
             \o Utf8Cells(line, from + w)

CharCells(line) == Utf8Cells(line, 1)

\* str is size + 2 * qz newline-terminated lines of size + 2 * qz cells;
\* the cell at line qz + y, column qz + x is black iff modules[y][x], and
\* every other cell is white.
GridLayout(str, q, Cells(_), black, white, qz) ==
  LET lines == SplitLines(str, 1)
      w == q.size + 2 * qz
      Inside(i) == i > qz /\ i <= qz + q.size
  IN  /\ str[Len(str)] = ChNewline
      /\ Len(lines) = w
      /\ \A i \in 1..Len(lines) :
           LET cells == Cells(lines[i])
           IN  /\ Len(cells) = w
               /\ \A j \in 1..Len(cells) :
                    cells[j] = IF Inside(i) /\ Inside(j)
                                    /\ q.modules[i - qz][j - qz]
                                 THEN black ELSE white

\* C22: for a symbol of size s > 0, toRobustAscii gives s + 8 lines of
\* s + 8 two-character cells and toCompactAscii gives s + 4 lines of s + 4
\* one-character cells, each line newline-terminated; the cell of module
\* (x, y) is "##" / the full block iff the module is dark, and all other
\* cells, the quiet zone included, are blank.
C22_CellGrid ==
  (pc = "render" /\ qrcode.size > 0) =>
     /\ (seen.robust # << >> =>
           GridLayout(seen.robust, qrcode, PairCells,
                      <<ChHash, ChHash>>, <<ChSpace, ChSpace>>, 4))
     /\ (seen.compact # << >> =>
           GridLayout(seen.compact, qrcode, CharCells,
                      FullBlock, <<ChSpace>>, 2))

\* C22 witness: a grid with dark and light modules that is not symmetric,
\* rendered by both renderers.
C22_Witness ==
  /\ pc = "render" /\ qrcode.size = 2
  /\ qrcode.modules[1][2] /\ ~qrcode.modules[2][1]
  /\ seen.robust # << >> /\ seen.compact # << >>

\* C23: for a symbol of size s > 0, toHalfBlockAscii gives a blank line,
\* ceil(s / 2) body lines and a blank line; the cell of column x in body
\* line r is the full block iff rows 2r and 2r + 1 are both dark at x, the
\* upper half iff only row 2r is, the lower half iff only row 2r + 1 is,
\* and a space iff neither; a row past the last one counts as light.
C23_HalfBlockLayout ==
  (pc = "render" /\ qrcode.size > 0 /\ seen.half # << >>) =>
     LET lines == SplitLines(seen.half, 1)
         s == qrcode.size
         n == (s + 1) \div 2
         blank == [j \in 1..(s + 2) |-> ChSpace]
         Dark(y, x) == y <= s /\ qrcode.modules[y][x]
     IN  /\ seen.half[Len(seen.half)] = ChNewline
         /\ Len(lines) = n + 2
         /\ lines[1] = blank
         /\ lines[n + 2] = blank
         /\ \A r \in 1..n :
              LET cells == CharCells(lines[r + 1])
              IN  /\ Len(cells) = s + 2
                  /\ cells[1] = <<ChSpace>>
                  /\ cells[s + 2] = <<ChSpace>>
                  /\ \A x \in 1..s :
                       LET top == Dark(2 * r - 1, x)
                           bottom == Dark(2 * r, x)
                       IN  /\ (cells[x + 1] = FullBlock <=> top /\ bottom)
                           /\ (cells[x + 1] = UpperHalfBlock
                                 <=> top /\ ~bottom)
                           /\ (cells[x + 1] = LowerHalfBlock
                                 <=> ~top /\ bottom)
                           /\ (cells[x + 1] = <<ChSpace>>
                                 <=> ~top /\ ~bottom)

\* C23 witness: a grid of odd side with a dark module in its last row,
\* rendered in half blocks.
C23_Witness ==
  /\ pc = "render" /\ qrcode.size = 3
  /\ qrcode.modules[3][1]
  /\ seen.half # << >>


-----------------------------------------------------------------------------
(* QrViewer (src/ui/tui/src/qr_viewer.cpp).  The list qr_codes_ is kept by *)
(* its length qr_count; time is the number of milliseconds since           *)
(* last_auto_advance_, capped at the interval.  op names the last member   *)
(* function that ran and prev_index the index it found.                    *)

\* Longest list handed to the viewer
MaxViewerParts == 3

\* Milliseconds that pass between two looks at the clock
FrameMs == 2000

\* auto_play_interval_{4000}
auto_play_interval == 4000

otherVars == <<pc, data, max_length, ecc, qrs, encoded, hex, hexOut,
               qrcode, ret, seen, th, wallet, app>>

\* QrViewer::QrViewer(qr_codes)
NewViewer(n) ==
  [qr_count |-> n, current_index |-> 0, auto_play |-> FALSE, elapsed |-> 0,
   was_playing |-> FALSE, op |-> "QrViewer", prev_index |-> 0]

CanGoPrevious(v) == v.current_index > 0

CanGoNext(v) == v.current_index < v.qr_count - 1

\* Variant of NextPart: the index is advanced without asking CanGoNext.
NextPart_Unchecked(v) ==
  [v EXCEPT !.current_index = @ + 1, !.elapsed = 0]

\* Variant of NextPart: the last part wraps to the first whether or not
\* auto-play is on.
NextPart_AlwaysWraps(v) ==
  IF CanGoNext(v) THEN [v EXCEPT !.current_index = @ + 1, !.elapsed = 0]
  ELSE IF v.qr_count # 0 THEN [v EXCEPT !.current_index = 0, !.elapsed = 0]
  ELSE v

\* Variant of NextPart: the last part never wraps.
NextPart_NeverWraps(v) ==
  IF CanGoNext(v) THEN [v EXCEPT !.current_index = @ + 1, !.elapsed = 0]
  ELSE v

\* QrViewer::NextPart
NextPart(v) ==
  IF CanGoNext(v) THEN [v EXCEPT !.current_index = @ + 1, !.elapsed = 0]
  ELSE IF v.auto_play /\ v.qr_count # 0
    THEN [v EXCEPT !.current_index = 0, !.elapsed = 0]
  ELSE v

\* QrViewer::PreviousPart
PreviousPart(v) ==
  IF CanGoPrevious(v) THEN [v EXCEPT !.current_index = @ - 1, !.elapsed = 0]
  ELSE v

\* QrViewer::ToggleAutoPlay
ToggleAutoPlay(v) ==
  [v EXCEPT !.auto_play = ~@,
            !.elapsed = IF ~v.auto_play THEN 0 ELSE @]

\* QrViewer::ResetToFirst
ResetToFirst(v) ==
  [v EXCEPT !.current_index = 0, !.auto_play = FALSE, !.elapsed = 0]

\* QrViewer::SetQRCodes
SetQRCodes(v, n) ==
  [v EXCEPT !.qr_count = n, !.current_index = 0, !.auto_play = FALSE,
            !.elapsed = 0]

\* QrViewer::UpdateAutoPlay
UpdateAutoPlay(v) ==
  IF v.elapsed >= auto_play_interval THEN NextPart(v) ELSE v

\* The animation_monitor renderer: restarts the interval when auto-play
\* has just been switched on
animation_monitor(v) ==
  [v EXCEPT !.elapsed = IF v.auto_play /\ ~v.was_playing THEN 0 ELSE @,
            !.was_playing = v.auto_play]

\* The state after member function name ran from v and produced w
Ran(name, v, w) == [w EXCEPT !.op = name, !.prev_index = v.current_index]

InitViewer ==
  /\ pc = "viewer"
  /\ \E n \in 0..MaxViewerParts : viewer = NewViewer(n)
  /\ wallet = NoWallet
  /\ app = NoApp
  /\ RenderIdle
  /\ qrcode = NewQRCode
  /\ data = << >>
  /\ max_length = 0
  /\ ecc = "QUARTILE"
  /\ qrs = << >>
  /\ encoded = << >>
  /\ hex = << >>
  /\ hexOut = [err |-> FALSE, bytes |-> << >>]

CallSetQRCodes ==
  /\ pc = "viewer"
  /\ \E n \in 0..MaxViewerParts :
       viewer' = Ran("SetQRCodes", viewer, SetQRCodes(viewer, n))
  /\ UNCHANGED otherVars

CallNextPart ==
  /\ pc = "viewer"
  /\ viewer' = Ran("NextPart", viewer, NextPart(viewer))
  /\ UNCHANGED otherVars

CallPreviousPart ==
  /\ pc = "viewer"
  /\ viewer' = Ran("PreviousPart", viewer, PreviousPart(viewer))
  /\ UNCHANGED otherVars

CallToggleAutoPlay ==
  /\ pc = "viewer"
  /\ viewer' = Ran("ToggleAutoPlay", viewer, ToggleAutoPlay(viewer))
  /\ UNCHANGED otherVars

CallResetToFirst ==
  /\ pc = "viewer"
  /\ viewer' = Ran("ResetToFirst", viewer, ResetToFirst(viewer))
  /\ UNCHANGED otherVars

\* QrViewer::OnEvent when a child component takes the event: a button
\* runs its callback, the checkbox flips auto_play_, or the container only
\* moves the focus.
OnEventChild ==
  /\ pc = "viewer"
  /\ \/ viewer' = IF CanGoPrevious(viewer)
                      THEN Ran("PreviousPart", viewer, PreviousPart(viewer))
                      ELSE Ran("Button", viewer, viewer)
     \/ viewer' = IF CanGoNext(viewer)
                      THEN Ran("NextPart", viewer, NextPart(viewer))
                      ELSE Ran("Button", viewer, viewer)
     \/ viewer' = Ran("Checkbox", viewer,
                      [viewer EXCEPT !.auto_play = ~@])
     \/ viewer' = Ran("Focus", viewer, viewer)
  /\ UNCHANGED otherVars

\* QrViewer::OnEvent when no child takes the event: the shortcuts
OnEventShortcut ==
  /\ pc = "viewer"
  /\ \E event \in {"ArrowLeft", "h", "ArrowRight", "l", "other"} :
       viewer' =
         IF event \in {"ArrowLeft", "h"}
           THEN Ran("PreviousPart", viewer, PreviousPart(viewer))
         ELSE IF event \in {"ArrowRight", "l"}
           THEN Ran("NextPart", viewer, NextPart(viewer))
         ELSE Ran("Ignored", viewer, viewer)
  /\ UNCHANGED otherVars

\* QrViewer::OnRender: UpdateAutoPlay when auto-play is on, then, for a
\* non-empty list, the controls with the animation monitor are rendered.
OnRender ==
  /\ pc = "viewer"
  /\ LET v == IF viewer.auto_play THEN UpdateAutoPlay(viewer) ELSE viewer
         w == IF v.qr_count # 0 THEN animation_monitor(v) ELSE v
     IN  viewer' = Ran(IF viewer.auto_play THEN "UpdateAutoPlay"
                       ELSE "OnRender", viewer, w)
  /\ UNCHANGED otherVars

\* QrViewer::OnAnimation
OnAnimation ==
  /\ pc = "viewer"
  /\ viewer' = IF viewer.auto_play
                 THEN Ran("UpdateAutoPlay", viewer, UpdateAutoPlay(viewer))
                 ELSE Ran("OnAnimation", viewer, viewer)
  /\ UNCHANGED otherVars

\* The steady clock moves on
Elapse ==
  /\ pc = "viewer"
  /\ viewer.elapsed < auto_play_interval
  /\ viewer' = [viewer EXCEPT
                  !.elapsed = Min(@ + FrameMs, auto_play_interval)]
  /\ UNCHANGED otherVars

NextViewer ==
  \/ CallSetQRCodes
  \/ CallNextPart
  \/ CallPreviousPart
  \/ CallToggleAutoPlay
  \/ CallResetToFirst
  \/ OnEventChild
  \/ OnEventShortcut
  \/ OnRender
  \/ OnAnimation
  \/ Elapse

SpecViewer == InitViewer /\ [][NextViewer]_vars

\* RenderQRCode reads qr_codes_[current_index_] unless the list is empty
\* or the index is at or past its end
RenderQRCodeIndexes(v) ==
  ~(v.qr_count = 0 \/ v.current_index >= v.qr_count)

\* C24: current_index_ is never negative, is below the length of a
\* non-empty list and is 0 for an empty one, so that RenderQRCode reads
\* inside the list whenever it reads.
C24_IndexInRange ==
  pc = "viewer" =>
     /\ viewer.current_index >= 0
     /\ (viewer.qr_count > 0 => viewer.current_index < viewer.qr_count)
     /\ (viewer.qr_count = 0 => viewer.current_index = 0)
     /\ (RenderQRCodeIndexes(viewer) =>
           viewer.current_index \in 0..(viewer.qr_count - 1))

\* C24 witness: the viewer shows the last part of the longest list after
\* a NextPart.
C24_Witness ==
  /\ pc = "viewer"
  /\ viewer.op = "NextPart"
  /\ viewer.qr_count = MaxViewerParts
  /\ viewer.current_index = viewer.qr_count - 1
  /\ viewer.prev_index = viewer.qr_count - 2

\* C25: NextPart on the last part keeps the index when auto-play is off
\* and goes to 0 when auto-play is on (the list being non-empty);
\* PreviousPart on part 0 keeps the index; SetQRCodes and ResetToFirst
\* leave index 0 and auto-play off.
C25_EdgesOfTheList ==
  pc = "viewer" =>
     /\ (viewer.op = "NextPart" /\ viewer.qr_count > 0
           /\ viewer.prev_index = viewer.qr_count - 1 =>
             viewer.current_index
               = IF viewer.auto_play THEN 0 ELSE viewer.prev_index)
     /\ (viewer.op = "NextPart" /\ viewer.current_index < viewer.prev_index
           => viewer.auto_play /\ viewer.qr_count > 0
                /\ viewer.current_index = 0)
     /\ (viewer.op = "PreviousPart" /\ viewer.prev_index = 0 =>
           viewer.current_index = 0)
     /\ (viewer.op \in {"SetQRCodes", "ResetToFirst"} =>
           viewer.current_index = 0 /\ ~viewer.auto_play)

\* C25 witness: NextPart on the last of several parts with auto-play on
\* has wrapped to part 0.
C25_Witness ==
  /\ pc = "viewer"
  /\ viewer.op = "NextPart"
  /\ viewer.auto_play
  /\ viewer.qr_count >= 2
  /\ viewer.prev_index = viewer.qr_count - 1
  /\ viewer.current_index = 0


\* The viewer with a clock that keeps moving and animation frames that
\* keep arriving (OnAnimation asks for the next frame while auto-play is on)
SpecViewerFair ==
  /\ InitViewer
  /\ [][NextViewer]_vars
  /\ WF_vars(Elapse)
  /\ WF_vars(OnAnimation)

\* Auto-play is on for a list of n parts and only UpdateAutoPlay runs
AutoPlaying(n) ==
  /\ pc = "viewer"
  /\ viewer.auto_play
  /\ viewer.qr_count = n
  /\ viewer.op = "UpdateAutoPlay"

\* A step of UpdateAutoPlay shows the same part or the cyclically next one
C26_CyclicStep ==
  (pc = "viewer" /\ viewer.auto_play /\ viewer.qr_count >= 1
     /\ viewer'.op = "UpdateAutoPlay") =>
       viewer'.current_index
         \in {viewer.current_index,
              (viewer.current_index + 1) % viewer.qr_count}

\* C26: once auto-play stays on for a list of N >= 1 parts, with the
\* interval elapsing and UpdateAutoPlay running again and again, every
\* part 0..N-1 is shown infinitely often, each step going from a part to
\* the cyclically next one.
C26_AutoPlayCycles ==
  /\ \A n \in 1..MaxViewerParts : \A i \in 0..(n - 1) :
       <>[]AutoPlaying(n) => []<>(viewer.current_index = i)
  /\ [][C26_CyclicStep]_vars

\* C26 witness: UpdateAutoPlay has taken the viewer from the last of the
\* parts back to part 0.
C26_Witness ==
  /\ AutoPlaying(MaxViewerParts)
  /\ viewer.prev_index = MaxViewerParts - 1
  /\ viewer.current_index = 0


-----------------------------------------------------------------------------
(* WalletDetector (src/ui/tui/src/wallet_detector.cpp).  world is the set  *)
(* of devices a scan would report now; devices is devices_, current is     *)
(* current_device_, thread counts the live detection threads; op names     *)
(* the last member function that ran.                                      *)

\* USB paths (vendor:product) of the Ledger devices that can be plugged in
DevicePaths == {"2c97:0001", "2c97:0004"}

\* Position of a device in the enumeration of a scan
ScanIndex(path) == IF path = "2c97:0001" THEN 1 ELSE 2

\* What scanForDevices reports for one device: it could not be opened
\* (product "Ledger Device", not connected), or it was opened and gave its
\* product string or not.
DeviceReports(path) ==
  {[path |-> path, manufacturer |-> "Ledger", product |-> "Ledger Device",
    connected |-> FALSE],
   [path |-> path, manufacturer |-> "Ledger", product |-> "Ledger Device",
    connected |-> TRUE],
   [path |-> path, manufacturer |-> "Ledger", product |-> "Nano S",
    connected |-> TRUE]}

\* The possible results of scanForDevices: at most one report per path
Worlds ==
  {w \in SUBSET (UNION {DeviceReports(path) : path \in DevicePaths}) :
     \A d1 \in w, d2 \in w : d1.path = d2.path => d1 = d2}

\* WalletDevice{}: empty path and product, not connected
NoDevice ==
  [path |-> "", manufacturer |-> "", product |-> "", connected |-> FALSE]

\* WalletDevice::operator==
SameDevice(a, b) == a.path = b.path /\ a.product = b.product

\* WalletDetector::isLedgerDevice: "ledger" in the manufacturer or
\* "nano" / "ledger" in the product, case-insensitively
isLedgerDevice(d) ==
  \/ d.manufacturer = "Ledger"
  \/ d.product \in {"Ledger Device", "Nano S"}

HasConnectedLedger(devs) ==
  \E d \in devs : d.connected /\ isLedgerDevice(d)

\* WalletDetector::WalletDetector with the default member initialisers
NewWallet(w) ==
  [world |-> w, devices |-> {}, current |-> NoDevice,
   status |-> "DISCONNECTED", is_detecting |-> FALSE, should_stop |-> FALSE,
   thread |-> 0, terminated |-> FALSE, op |-> "WalletDetector",
   callers |-> << >>]

\* WalletDetector::updateDeviceList on the scan result d.world: new
\* devices (a connected Ledger one sets CONNECTED and becomes current, the
\* last in scan order winning), removed devices (one with the current
\* path sets DISCONNECTED), devices_ replaced, and DISCONNECTED if no
\* connected Ledger device is left.
updateDeviceList(d) ==
  LET scan == d.world
      fresh == {n \in scan : (\A o \in d.devices : ~SameDevice(o, n))
                               /\ n.connected /\ isLedgerDevice(n)}
      last == CHOOSE n \in fresh : \A o \in fresh : ScanIndex(o.path) <= ScanIndex(n.path)
      removed == {o \in d.devices : \A n \in scan : ~SameDevice(n, o)}
      status1 == IF fresh # {} THEN "CONNECTED" ELSE d.status
      current1 == IF fresh # {} THEN last ELSE d.current
      hit == \E o \in removed : current1.path = o.path
      status2 == IF hit THEN "DISCONNECTED" ELSE status1
  IN  [d EXCEPT !.devices = scan,
                !.current = IF hit THEN [current1 EXCEPT !.connected = FALSE]
                            ELSE current1,
                !.status = IF ~HasConnectedLedger(scan)
                                /\ status2 = "CONNECTED"
                             THEN "DISCONNECTED" ELSE status2]

\* WalletDetector::startDetection; started tells whether std::thread could
\* be constructed.
startDetection(d, started) ==
  IF d.is_detecting THEN d
  ELSE LET u == updateDeviceList([d EXCEPT !.should_stop = FALSE,
                                           !.is_detecting = TRUE,
                                           !.status = "DISCONNECTED"])
       IN  IF started THEN [u EXCEPT !.thread = @ + 1]
           ELSE [u EXCEPT !.is_detecting = FALSE]

\* WalletDetector::stopDetection
stopDetection(d) ==
  IF ~d.is_detecting THEN d
  ELSE [d EXCEPT !.should_stop = TRUE, !.thread = 0,
                 !.is_detecting = FALSE, !.status = "DISCONNECTED"]

\* WalletDetector::disconnect
disconnect(d) ==
  [d EXCEPT !.current = [@ EXCEPT !.connected = FALSE],
            !.status = "DISCONNECTED"]

viewerAndApp == <<viewer, app>>

InitWallet ==
  /\ pc = "wallet"
  /\ \E w \in Worlds : wallet = NewWallet(w)
  /\ viewer = NoViewer
  /\ app = NoApp
  /\ RenderIdle
  /\ qrcode = NewQRCode
  /\ data = << >>
  /\ max_length = 0
  /\ ecc = "QUARTILE"
  /\ qrs = << >>
  /\ encoded = << >>
  /\ hex = << >>
  /\ hexOut = [err |-> FALSE, bytes |-> << >>]

walletFrame == <<pc, qrcode, renderVars, pipelineVars, viewerAndApp>>

CallStartDetection ==
  /\ pc = "wallet"
  /\ \E started \in BOOLEAN :
       wallet' = [startDetection(wallet, started) EXCEPT
                    !.op = "startDetection"]
  /\ UNCHANGED walletFrame

CallStopDetection ==
  /\ pc = "wallet"
  /\ wallet' = [stopDetection(wallet) EXCEPT !.op = "stopDetection"]
  /\ UNCHANGED walletFrame

CallDisconnect ==
  /\ pc = "wallet"
  /\ wallet' = [disconnect(wallet) EXCEPT !.op = "disconnect"]
  /\ UNCHANGED walletFrame

\* One round of WalletDetector::detectionLoop
detectionLoop ==
  /\ pc = "wallet"
  /\ wallet.thread > 0
  /\ ~wallet.should_stop
  /\ wallet' = [updateDeviceList(wallet) EXCEPT !.op = "updateDeviceList"]
  /\ UNCHANGED walletFrame

\* A device is plugged in, unplugged, locked or unlocked
WorldChanges ==
  /\ pc = "wallet"
  /\ \E w \in Worlds :
       /\ w # wallet.world
       /\ wallet' = [wallet EXCEPT !.world = w]
  /\ UNCHANGED walletFrame

NextWallet ==
  \/ CallStartDetection
  \/ CallStopDetection
  \/ CallDisconnect
  \/ detectionLoop
  \/ WorldChanges

SpecWallet == InitWallet /\ [][NextWallet]_vars

\* The detector whose detection thread keeps running its loop
SpecWalletFair ==
  /\ InitWallet
  /\ [][NextWallet]_vars
  /\ WF_vars(detectionLoop)


\* Detection is running, the loop is the only member function that runs,
\* and a scan reports a connected Ledger device
ScanningConnectedLedger ==
  /\ pc = "wallet"
  /\ wallet.is_detecting
  /\ wallet.thread > 0
  /\ wallet.op = "updateDeviceList"
  /\ HasConnectedLedger(wallet.world)

\* C27: if from some point on detection is running and every scan reports
\* a connected Ledger device, then from some point on the status is
\* CONNECTED for good, whatever happened before (disconnect, a stop and a
\* new start, a listed device becoming connected).
C27_EventuallyConnected ==
  <>[]ScanningConnectedLedger => <>[](wallet.status = "CONNECTED")

\* CONNECTED only with a connected Ledger device in devices_
ConnectedHasLedger ==
  pc = "wallet" =>
     (wallet.status = "CONNECTED" => HasConnectedLedger(wallet.devices))

\* C28: after updateDeviceList the status is CONNECTED only if devices_
\* holds a connected Ledger device, and after stopDetection the status is
\* DISCONNECTED and no detection thread runs.
C28_StatusAfterUpdateAndStop ==
  pc = "wallet" =>
     /\ (wallet.op = "updateDeviceList" /\ wallet.status = "CONNECTED" =>
           HasConnectedLedger(wallet.devices))
     /\ (wallet.op = "stopDetection" =>
           wallet.status = "DISCONNECTED" /\ wallet.thread = 0)


-----------------------------------------------------------------------------
(* Two threads calling startDetection on the same detector.  The function  *)
(* takes no lock, so each caller runs its steps on its own: the test of    *)
(* is_detecting_, the stores, the initial scan, the thread construction.   *)

Callers == {1, 2}

InitWalletStart ==
  /\ pc = "wallet_start"
  /\ \E w \in Worlds :
       wallet = [NewWallet(w) EXCEPT !.callers = [c \in Callers |-> "test"]]
  /\ viewer = NoViewer
  /\ app = NoApp
  /\ RenderIdle
  /\ qrcode = NewQRCode
  /\ data = << >>
  /\ max_length = 0
  /\ ecc = "QUARTILE"
  /\ qrs = << >>
  /\ encoded = << >>
  /\ hex = << >>
  /\ hexOut = [err |-> FALSE, bytes |-> << >>]

Running == pc = "wallet_start" /\ ~wallet.terminated

\* if (is_detecting_.load()) return true;
StartTest(c) ==
  /\ Running
  /\ wallet.callers[c] = "test"
  /\ wallet' = [wallet EXCEPT
                  !.callers[c] = IF wallet.is_detecting THEN "returned"
                                 ELSE "store"]
  /\ UNCHANGED walletFrame

\* should_stop_.store(false); is_detecting_.store(true);
\* updateStatus(DISCONNECTED);
StartStore(c) ==
  /\ Running
  /\ wallet.callers[c] = "store"
  /\ wallet' = [wallet EXCEPT !.should_stop = FALSE, !.is_detecting = TRUE,
                              !.status = "DISCONNECTED",
                              !.callers[c] = "scan"]
  /\ UNCHANGED walletFrame

\* updateDeviceList();
StartScan(c) ==
  /\ Running
  /\ wallet.callers[c] = "scan"
  /\ wallet' = [updateDeviceList(wallet) EXCEPT !.callers[c] = "spawn"]
  /\ UNCHANGED walletFrame

\* detection_thread_ = std::make_unique<std::thread>(...): the new thread
\* runs; assigning over a unique_ptr that holds a joinable thread destroys
\* that thread object, which calls std::terminate.
StartSpawn(c) ==
  /\ Running
  /\ wallet.callers[c] = "spawn"
  /\ \/ wallet' = [wallet EXCEPT !.thread = @ + 1,
                                 !.terminated = wallet.thread > 0,
                                 !.callers[c] = "returned"]
     \/ wallet' = [wallet EXCEPT !.is_detecting = FALSE,
                                 !.callers[c] = "returned"]
  /\ UNCHANGED walletFrame

\* One round of detectionLoop of one of the live detection threads
StartedLoop ==
  /\ Running
  /\ wallet.thread > 0
  /\ ~wallet.should_stop
  /\ wallet' = [updateDeviceList(wallet) EXCEPT !.op = "updateDeviceList"]
  /\ UNCHANGED walletFrame

StartWorldChanges ==
  /\ Running
  /\ \E w \in Worlds :
       /\ w # wallet.world
       /\ wallet' = [wallet EXCEPT !.world = w]
  /\ UNCHANGED walletFrame

NextWalletStart ==
  \/ \E c \in Callers : StartTest(c)
  \/ \E c \in Callers : StartStore(c)
  \/ \E c \in Callers : StartScan(c)
  \/ \E c \in Callers : StartSpawn(c)
  \/ StartedLoop
  \/ StartWorldChanges

SpecWalletStart == InitWalletStart /\ [][NextWalletStart]_vars

\* C29: at most one detection thread exists at any time, with one caller
\* of startDetection after the other and with two callers at once, and the
\* program is not terminated by the start of a second one.
C29_AtMostOneThread ==
  pc \in {"wallet", "wallet_start"} =>
     wallet.thread <= 1 /\ ~wallet.terminated


-----------------------------------------------------------------------------
(* AppState: the device list and the selected device                      *)
(* (src/ui/tui/src/state.cpp).  A device is kept by the value of its      *)
(* isValid(); op names the last member function that ran, accepted tells  *)
(* whether it took its argument, and before holds devices and             *)
(* selected_device as it found them.                                      *)

\* Longest device list handed to setDevices
MaxDeviceList == 11

\* if (device_list.size() > 10) return false;
DEVICE_LIMIT == 10

\* Lists of up to MaxDeviceList devices, all valid or with one invalid
\* device at any position
DeviceLists ==
  UNION {{SubSeq([k \in 1..n |-> k # bad], 1, n) : bad \in 0..n} :
           n \in 0..MaxDeviceList}

\* AppState after construction: no devices, selected_device{0}
NewApp ==
  [devices |-> << >>, selected_device |-> 0, op |-> "AppState",
   accepted |-> TRUE,
   before |-> [devices |-> << >>, selected_device |-> 0]]

\* AppState::setDevices: the new state and the returned flag
setDevices(a, device_list) ==
  IF \E k \in 1..Len(device_list) : ~device_list[k]
    THEN [app |-> a, ok |-> FALSE]
  ELSE IF Len(device_list) > DEVICE_LIMIT
    THEN [app |-> a, ok |-> FALSE]
  ELSE [app |-> [a EXCEPT !.devices = device_list], ok |-> TRUE]

\* AppState::setSelectedDevice
setSelectedDevice(a, index) ==
  IF index >= 0 /\ index < Len(a.devices)
    THEN [app |-> [a EXCEPT !.selected_device = index], ok |-> TRUE]
    ELSE [app |-> a, ok |-> FALSE]

\* AppState::clearAll
clearAll(a) == [a EXCEPT !.selected_device = 0, !.devices = << >>]

Snapshot(a) == [devices |-> a.devices, selected_device |-> a.selected_device]

appFrame == <<pc, qrcode, renderVars, pipelineVars, viewer, wallet>>

InitApp ==
  /\ pc = "app"
  /\ app = NewApp
  /\ viewer = NoViewer
  /\ wallet = NoWallet
  /\ RenderIdle
  /\ qrcode = NewQRCode
  /\ data = << >>
  /\ max_length = 0
  /\ ecc = "QUARTILE"
  /\ qrs = << >>
  /\ encoded = << >>
  /\ hex = << >>
  /\ hexOut = [err |-> FALSE, bytes |-> << >>]

CallSetDevices ==
  /\ pc = "app"
  /\ \E device_list \in DeviceLists :
       LET r == setDevices(app, device_list)
       IN  app' = [r.app EXCEPT !.op = "setDevices", !.accepted = r.ok,
                                !.before = Snapshot(app)]
  /\ UNCHANGED appFrame

CallSetSelectedDevice ==
  /\ pc = "app"
  /\ \E index \in (-1)..MaxDeviceList :
       LET r == setSelectedDevice(app, index)
       IN  app' = [r.app EXCEPT !.op = "setSelectedDevice",
                                !.accepted = r.ok,
                                !.before = Snapshot(app)]
  /\ UNCHANGED appFrame

CallClearAll ==
  /\ pc = "app"
  /\ app' = [clearAll(app) EXCEPT !.op = "clearAll", !.accepted = TRUE,
                                  !.before = Snapshot(app)]
  /\ UNCHANGED appFrame

NextApp ==
  \/ CallSetDevices
  \/ CallSetSelectedDevice
  \/ CallClearAll

SpecApp == InitApp /\ [][NextApp]_vars

\* A rejected call leaves devices and selected_device as they were
RejectedKeepsState ==
  (pc = "app" /\ ~app.accepted) => Snapshot(app) = app.before

\* C30: selected_device is a valid index into devices whenever devices is
\* not empty, after any sequence of setDevices, setSelectedDevice and
\* clearAll, and a rejected setSelectedDevice or setDevices changes
\* neither devices nor selected_device.
C30_SelectedDeviceInRange ==
  pc = "app" =>
     /\ (app.devices # << >> =>
           app.selected_device >= 0
             /\ app.selected_device < Len(app.devices))
     /\ (~app.accepted => Snapshot(app) = app.before)

=============================================================================
